---- MODULE Spec2Model ----
(***************************************************************************)
(* Model of the task-management sync layer: the Task entity of             *)
(* backend/models.py with its validators and operations, and the remote    *)
(* reconciliation of backend/sync.py (TaskSync) and                        *)
(* backend/sync_improved.py (ImprovedTaskSync) against a remote table      *)
(* keyed by date and a local per-date snapshot file.                       *)
(*                                                                         *)
(* Specifications:                                                         *)
(*   Spec          clients pushing and pulling against the remote table   *)
(*   SpecUpdate    clients pushing and updating single tasks               *)
(*   SpecFaults    one client with failing local I/O and remote errors     *)
(*   SpecSubs      one TaskSync object's realtime subscriptions            *)
(*   SpecTask      one Task object under its operations                    *)
(*   SpecSubtasks  one Task built with many subtasks                       *)
(*   SpecDaily     one DailyTasks object under its operations              *)
(***************************************************************************)
EXTENDS Integers, Sequences, FiniteSets, TLC

VARIABLES
    task,       \* SpecTask: the Task object
    now,        \* the value datetime.now() returns
    ret,        \* SpecTask, SpecDaily: what the last operation returned
    daily,      \* SpecDaily: the DailyTasks object
    remote,     \* the daily_tasks table: date -> row or NoRecord
    local,      \* data/daily/<date>.json: date -> snapshot or NoFile
    pc,         \* per client: where its current call stands
    call,       \* per client: the current call's arguments and locals
    result,     \* per client: the SyncResult of its last finished call
    ncalls,     \* calls started so far, by all clients
    lastSaved,  \* history: per date, the task list of the latest snapshot saved
    accepted,   \* history: task lists the remote table has stored
    lastPush,   \* history: per client, its successful push nobody wrote after
    active_subscriptions,  \* TaskSync.active_subscriptions: (id, channel) pairs
    channels    \* realtime channels created so far

vars == <<task, now, ret, daily, remote, local, pc, call, result, ncalls,
          lastSaved, accepted, lastPush, active_subscriptions, channels>>

taskVars == <<task, now, ret>>
storeVars == <<remote, local, pc, call, result, ncalls, lastSaved, accepted, lastPush>>
subsVars == <<active_subscriptions, channels>>
syncVars == <<storeVars, subsVars>>
dailyVars == <<daily>>

----------------------------------------------------------------------------
(* Bounds *)

MaxClock == 2
MaxSubtasks == 2
MaxNotes == 1
MaxCalls == 3
ManySubtasks == 50
MaxTasks == 3
MaxChannels == 4

----------------------------------------------------------------------------
(* backend/models.py: enumerations and the Task entity *)

NOT_STARTED == "not_started"
IN_PROGRESS == "in_progress"
COMPLETED == "completed"
BLOCKED == "blocked"
CANCELLED == "cancelled"

TaskStatus == {NOT_STARTED, IN_PROGRESS, COMPLETED, BLOCKED, CANCELLED}

Priority == {"P1", "P2", "P3"}

Category == {"development", "design", "admin", "learning", "personal",
             "meeting", "planning"}

\* Optional[str] = None for a timestamp: the absent value
NoTime == -1

\* Field(default=0, ge=0, le=100)
ProgressMin == 0
ProgressMax == 100
ProgressDefault == 0

\* an optional keyword argument: {} when not given, {v} when given
Opt(S) == {{}} \cup {{x} : x \in S}

Given(arg) == arg # {}

ValueOf(arg) == CHOOSE x \in arg : TRUE

\* @validator('progress'): runs only on a value that was supplied
validate_progress(v, status) ==
    IF status = COMPLETED /\ v # ProgressMax THEN ProgressMax
    ELSE IF status = NOT_STARTED /\ v > 0 THEN 0
    ELSE v

\* @validator('completed_at'): runs only on a value that was supplied
set_completed_at(v, status, clock) ==
    IF status = COMPLETED /\ v = NoTime THEN clock
    ELSE IF status # COMPLETED THEN NoTime
    ELSE v

\* ge=0, le=100 on progress: a value outside raises a ValidationError
ProgressInRange(v) == v >= ProgressMin /\ v <= ProgressMax

\* The fields Task(...) leaves to their defaults
TaskDefaults(id, clock) ==
    [id |-> id,
     priority |-> "P2",
     status |-> NOT_STARTED,
     progress |-> ProgressDefault,
     category |-> "admin",
     estimated_minutes |-> 30,
     actual_minutes |-> 0,
     subtasks |-> <<>>,
     notes |-> 0,
     created_at |-> clock,
     updated_at |-> clock,
     completed_at |-> NoTime]

\* Task(status=..., progress=..., completed_at=...): field by field in
\* declaration order; a validator sees the fields validated before it and is
\* skipped for a field that takes its default.
ConstructOk(progressArg) ==
    Given(progressArg) => ProgressInRange(ValueOf(progressArg))

Construct(id, status, progressArg, completedArg, clock) ==
    [TaskDefaults(id, clock) EXCEPT
        !.status = status,
        !.progress = IF Given(progressArg)
                     THEN validate_progress(ValueOf(progressArg), status)
                     ELSE ProgressDefault,
        !.completed_at = IF Given(completedArg)
                         THEN set_completed_at(ValueOf(completedArg), status, clock)
                         ELSE NoTime]

\* Task(**dict) on a dumped task: every field is supplied, so both validators run
RevalidateOk(t) == ProgressInRange(t.progress) /\ t.status \in TaskStatus

Revalidate(t, clock) ==
    [t EXCEPT
        !.progress = validate_progress(t.progress, t.status),
        !.completed_at = set_completed_at(t.completed_at, t.status, clock)]

\* mutant: the note is appended and updated_at is left as it was
add_noteStale(t, clock) ==
    [t EXCEPT !.notes = @ + 1]

add_note(t, clock) ==
    [t EXCEPT !.notes = @ + 1, !.updated_at = clock]

mark_completed(t, clock) ==
    [t EXCEPT
        !.status = COMPLETED,
        !.progress = ProgressMax,
        !.completed_at = clock,
        !.updated_at = clock]

\* a subtask's id is its position: uuid4 ids are fresh and no subtask is removed
add_subtask(t, clock) ==
    [t EXCEPT
        !.subtasks = Append(@, [id |-> Len(@) + 1, completed |-> FALSE]),
        !.updated_at = clock]

CompletedCount(subtasks) ==
    Cardinality({i \in 1..Len(subtasks) : subtasks[i].completed})

\* The whole percentages k for which the double product (k / 100) * 100 is
\* the double just below k (0.29 * 100 = 28.999999999999996, likewise 57, 58)
TruncatedBelow == {29, 57, 58}

\* int((completed / total) * 100) in double arithmetic.  The quotient is the
\* double nearest to completed / total and the product is rounded once more,
\* so the result is within 1e-13 of 100 * completed / total.  When that value
\* is not whole it is at least 1 / total away from a whole number and int()
\* gives its floor; when it is the whole number k the quotient is the double
\* nearest to k / 100 and int() gives k, or k - 1 for the k of TruncatedBelow.
IntPercent(completed, total) ==
    LET k == (completed * 100) \div total
    IN  IF (completed * 100) % total = 0 /\ k \in TruncatedBelow
        THEN k - 1
        ELSE k

update_progress_from_subtasks(t, clock) ==
    IF t.subtasks = <<>> THEN t
    ELSE LET completed == CompletedCount(t.subtasks)
             total == Len(t.subtasks)
             t1 == [t EXCEPT !.progress = IntPercent(completed, total)]
         IN  IF completed = total /\ t1.status # COMPLETED
             THEN mark_completed(t1, clock)
             ELSE t1

HasSubtask(t, subtask_id) ==
    \E i \in 1..Len(t.subtasks) : t.subtasks[i].id = subtask_id

\* mutant: updated_at is refreshed whether or not the id is found
complete_subtaskTouching(t, subtask_id, clock) ==
    IF HasSubtask(t, subtask_id)
    THEN LET i == CHOOSE j \in 1..Len(t.subtasks) : t.subtasks[j].id = subtask_id
             t1 == [t EXCEPT !.subtasks[i].completed = TRUE,
                             !.updated_at = clock]
         IN  update_progress_from_subtasks(t1, clock)
    ELSE [t EXCEPT !.updated_at = clock]

complete_subtask(t, subtask_id, clock) ==
    IF HasSubtask(t, subtask_id)
    THEN LET i == CHOOSE j \in 1..Len(t.subtasks) : t.subtasks[j].id = subtask_id
             t1 == [t EXCEPT !.subtasks[i].completed = TRUE,
                             !.updated_at = clock]
         IN  update_progress_from_subtasks(t1, clock)
    ELSE t

\* update_task: the pulled task is rebuilt from its dump, each update is
\* assigned with setattr (no validation on assignment), updated_at refreshed
ApplyUpdates(t, updates, clock) ==
    [t EXCEPT
        !.status = IF Given(updates.status) THEN ValueOf(updates.status) ELSE @,
        !.progress = IF Given(updates.progress) THEN ValueOf(updates.progress) ELSE @,
        !.completed_at = IF Given(updates.completed_at)
                         THEN ValueOf(updates.completed_at) ELSE @,
        !.updated_at = clock]

----------------------------------------------------------------------------
(* Inputs *)

ProgressArgs == {0, 50, 100}

Updates ==
    [status : Opt(TaskStatus), progress : Opt(ProgressArgs),
     completed_at : Opt({NoTime})]

SubtaskIds == 1..(MaxSubtasks + 1)

----------------------------------------------------------------------------
(* SpecTask: one Task object *)

TaskInit ==
    /\ now = 0
    /\ ret = "none"
    /\ \E status \in TaskStatus, progressArg \in Opt(ProgressArgs \cup {150}),
          completedArg \in Opt({NoTime, 0}) :
          /\ ConstructOk(progressArg)
          /\ task = Construct("t1", status, progressArg, completedArg, 0)

Tick ==
    /\ now < MaxClock
    /\ now' = now + 1
    /\ UNCHANGED <<task, ret>>
    /\ UNCHANGED <<syncVars, dailyVars>>

AddNote ==
    /\ task.notes < MaxNotes
    /\ task' = add_note(task, now)
    /\ ret' = "none"
    /\ UNCHANGED now
    /\ UNCHANGED <<syncVars, dailyVars>>

MarkCompleted ==
    /\ task' = mark_completed(task, now)
    /\ ret' = "none"
    /\ UNCHANGED now
    /\ UNCHANGED <<syncVars, dailyVars>>

AddSubtask ==
    /\ Len(task.subtasks) < MaxSubtasks
    /\ task' = add_subtask(task, now)
    /\ ret' = "id"
    /\ UNCHANGED now
    /\ UNCHANGED <<syncVars, dailyVars>>

CompleteSubtask ==
    \E subtask_id \in SubtaskIds :
        /\ task' = complete_subtask(task, subtask_id, now)
        /\ ret' = IF HasSubtask(task, subtask_id) THEN "True" ELSE "False"
        /\ UNCHANGED now
        /\ UNCHANGED <<syncVars, dailyVars>>
    /\ UNCHANGED <<syncVars, dailyVars>>

UpdateTaskFields ==
    \E updates \in Updates :
        /\ RevalidateOk(task)
        /\ task' = ApplyUpdates(Revalidate(task, now), updates, now)
        /\ ret' = "none"
        /\ UNCHANGED now
        /\ UNCHANGED <<syncVars, dailyVars>>
    /\ UNCHANGED <<syncVars, dailyVars>>

TaskNext ==
    \/ Tick
    \/ AddNote
    \/ MarkCompleted
    \/ AddSubtask
    \/ CompleteSubtask
    \/ UpdateTaskFields

----------------------------------------------------------------------------
(* SpecSubtasks: one Task built with a list of subtasks, completed one by one *)

\* Task(status=..., subtasks=[Subtask(title=...), ...]): the subtasks are
\* taken as given, progress keeps its default
ConstructWithSubtasks(id, status, total, clock) ==
    [Construct(id, status, {}, {}, clock) EXCEPT
        !.subtasks = [i \in 1..total |-> [id |-> i, completed |-> FALSE]]]

\* the ids a caller completes: the first subtask still open, the first
\* subtask again, an id the task does not have
CompletableIds(t) ==
    {CompletedCount(t.subtasks) + 1, 1, Len(t.subtasks) + 1}

SubtasksInit ==
    /\ now = 0
    /\ ret = "none"
    /\ \E status \in TaskStatus, total \in 1..ManySubtasks :
          task = ConstructWithSubtasks("t1", status, total, 0)

CompleteSubtaskInOrder ==
    \E subtask_id \in CompletableIds(task) :
        /\ task' = complete_subtask(task, subtask_id, now)
        /\ ret' = IF HasSubtask(task, subtask_id) THEN "True" ELSE "False"
        /\ UNCHANGED now
        /\ UNCHANGED <<syncVars, dailyVars>>

SubtasksNext == CompleteSubtaskInOrder

----------------------------------------------------------------------------
(* backend/models.py: DaySummary and DailyTasks *)

RECURSIVE SumOver(_, _)
\* sum(f(t) for t in tasks), f given as the field's name
SumOver(tasks, field) ==
    IF tasks = <<>> THEN 0
    ELSE (IF field = "estimated_minutes"
          THEN Head(tasks).estimated_minutes
          ELSE Head(tasks).actual_minutes) + SumOver(Tail(tasks), field)

\* counts every task, whatever its status
CountStatusAny(tasks, status) == Len(tasks)

CountStatus(tasks, status) ==
    Cardinality({i \in 1..Len(tasks) : tasks[i].status = status})

\* the tenths cut off instead of rounded
RoundTenthsTruncating(num, den) == (1000 * num) \div den

\* round(x, 1) of x = (num / den) * 100, in tenths.  round() gives the tenth
\* nearest to the double x, and x is within 1e-13 of 100 * num / den, so the
\* result is the tenth nearest to 100 * num / den; a tie (den a multiple of
\* 16) goes to the even tenth for every den below 80.
RoundTenths(num, den) ==
    LET scaled == 1000 * num
        q == scaled \div den
        r == scaled % den
    IN  IF 2 * r > den THEN q + 1
        ELSE IF 2 * r < den THEN q
        ELSE IF q % 2 = 0 THEN q ELSE q + 1

\* a map with every key of the enumeration, 0 for those that do not occur
FrequenciesAllKeys(tasks, field) ==
    LET keyOf(t) == IF field = "category" THEN t.category ELSE t.priority
        keys == IF field = "category" THEN Category ELSE Priority
    IN  [k \in keys |-> Cardinality({i \in 1..Len(tasks) : keyOf(tasks[i]) = k})]

\* a frequency map: only the keys that occur
Frequencies(tasks, field) ==
    LET keyOf(t) == IF field = "category" THEN t.category ELSE t.priority
        keys == {keyOf(tasks[i]) : i \in 1..Len(tasks)}
    IN  [k \in keys |-> Cardinality({i \in 1..Len(tasks) : keyOf(tasks[i]) = k})]

\* DaySummary(): every field at its default
EmptySummary ==
    [total_tasks |-> 0,
     completed_tasks |-> 0,
     in_progress_tasks |-> 0,
     blocked_tasks |-> 0,
     total_estimated_minutes |-> 0,
     total_actual_minutes |-> 0,
     completion_percentage |-> 0,
     categories |-> Frequencies(<<>>, "category"),
     priorities |-> Frequencies(<<>>, "priority")]

\* DaySummary.from_tasks; completion_percentage is kept in tenths
from_tasks(tasks) ==
    IF tasks = <<>> THEN EmptySummary
    ELSE [total_tasks |-> Len(tasks),
          completed_tasks |-> CountStatus(tasks, COMPLETED),
          in_progress_tasks |-> CountStatus(tasks, IN_PROGRESS),
          blocked_tasks |-> CountStatus(tasks, BLOCKED),
          total_estimated_minutes |-> SumOver(tasks, "estimated_minutes"),
          total_actual_minutes |-> SumOver(tasks, "actual_minutes"),
          completion_percentage |-> RoundTenths(CountStatus(tasks, COMPLETED), Len(tasks)),
          categories |-> Frequencies(tasks, "category"),
          priorities |-> Frequencies(tasks, "priority")]

\* DailyTasks(date=..., tasks=tasks) followed by update_summary(), dumped:
\* Task instances are taken as they are, the summary is recomputed
DailyTasksOf(date, tasks) ==
    [date |-> date, tasks |-> tasks, summary |-> from_tasks(tasks)]

\* DailyTasks(date=target_date): no tasks, default summary
EmptyDailyTasks(date) ==
    [date |-> date, tasks |-> <<>>, summary |-> EmptySummary]

TasksOk(tasks) == \A i \in 1..Len(tasks) : RevalidateOk(tasks[i])

\* DailyTasks(**data) on a dumped set: each task is rebuilt by Task(**dict),
\* the summary is taken from the dump as stored
ParseDailyTasks(data, clock) ==
    [date |-> data.date,
     tasks |-> [i \in 1..Len(data.tasks) |-> Revalidate(data.tasks[i], clock)],
     summary |-> data.summary]

\* DailyTasks(date=..., tasks=tasks): the summary keeps its default until
\* update_summary() is called
ConstructDaily(date, tasks) ==
    [date |-> date, tasks |-> tasks, summary |-> EmptySummary]

update_summary(d) == [d EXCEPT !.summary = from_tasks(d.tasks)]

\* tasks.append(task), then update_summary()
add_task(d, t) == update_summary([d EXCEPT !.tasks = Append(@, t)])

WithoutId(tasks, task_id) == SelectSeq(tasks, LAMBDA t : t.id # task_id)

\* the list without the tasks of that id; the summary is recomputed only
\* when the list became shorter
remove_task(d, task_id) ==
    LET kept == WithoutId(d.tasks, task_id)
        d1 == [d EXCEPT !.tasks = kept]
    IN  IF Len(kept) < Len(d.tasks) THEN update_summary(d1) ELSE d1

HasTask(d, task_id) == \E i \in 1..Len(d.tasks) : d.tasks[i].id = task_id

\* get_task: the position of the first task of that id
get_task(d, task_id) ==
    CHOOSE i \in 1..Len(d.tasks) :
        /\ d.tasks[i].id = task_id
        /\ \A j \in 1..(i - 1) : d.tasks[j].id # task_id

----------------------------------------------------------------------------
(* The remote table and the local snapshot files *)

Procs == {"c1", "c2"}

Dates == {"2025-01-29"}

\* Task objects a caller can hold, built by the constructor alone:
\* Task(title=...) and Task(title=..., status="completed")
TaskA == Construct("a", NOT_STARTED, {}, {}, 0)
TaskB == Construct("b", COMPLETED, {}, {}, 0)

PushLists == {<<TaskA>>, <<TaskB, TaskA>>}

\* messages of the exceptions a remote call can raise
DuplicateKeyMessage == "duplicate key value violates unique constraint"
NoRowsMessage == "JSON object requested, multiple (or no) rows returned"
RemoteFaults == {"network is unreachable"}

\* the words push_tasks_smart looks for in str(e).lower()
WordsOf(error_message) ==
    CASE error_message = DuplicateKeyMessage -> {"duplicate key"}
      [] error_message = "permission denied for table daily_tasks" -> {"permission"}
      [] error_message = "network is unreachable" -> {"network"}
      [] error_message = "connection refused" -> {"connection"}
      [] error_message = "Network connection lost: permission denied" ->
            {"network", "connection", "permission"}
      [] OTHER -> {}

\* the table: per date the rows stored under it (the primary key allows one)
RowOf(date, tasks) ==
    [date |-> date, tasks |-> tasks, summary |-> from_tasks(tasks)]

\* mutant: a snapshot already on disk is kept
SaveLocalKeepExisting(files, daily_tasks) ==
    IF files[daily_tasks.date] # <<>> THEN files
    ELSE [files EXCEPT ![daily_tasks.date] = <<daily_tasks>>]

\* _save_local_copy: the file is overwritten with the set's dump
SaveLocal(files, daily_tasks) ==
    [files EXCEPT ![daily_tasks.date] = <<daily_tasks>>]

\* what open(file_path, 'w') followed by json.dump can come to
IoOutcomes == {"ok", "open_failed", "write_failed"}

\* a file whose write stopped part-way: opened for writing (emptied) and not
\* written to its end, so json.load raises on it
TornFile(date) == [date |-> date, torn |-> TRUE]

IsTorn(file) == "torn" \in DOMAIN file

\* _save_local_copy whose I/O can fail: open() fails and the file is as it
\* was, or the dump fails after open() emptied the file; the exception is
\* caught and printed
SaveLocalOutcome(files, daily_tasks, io) ==
    IF io = "ok" THEN SaveLocal(files, daily_tasks)
    ELSE IF io = "open_failed" THEN files
    ELSE [files EXCEPT ![daily_tasks.date] = <<TornFile(daily_tasks.date)>>]

\* _load_local_copy: None when no file exists, when json.load raises, or when
\* the dump fails validation
LoadLocal(files, date, clock) ==
    IF files[date] = <<>> THEN <<>>
    ELSE IF IsTorn(files[date][1]) THEN <<>>
    ELSE IF ~TasksOk(files[date][1].tasks) THEN <<>>
    ELSE <<ParseDailyTasks(files[date][1], clock)>>

\* mutant: the update appends the pushed tasks to the stored ones
RemoteUpdateMerging(table, date, row) ==
    [table EXCEPT ![date] =
        [i \in 1..Len(@) |-> RowOf(date, @[i].tasks \o row.tasks)]]

\* .update(task_data).eq('date', target_date): every row of the date is replaced
RemoteUpdate(table, date, row) ==
    [table EXCEPT ![date] = [i \in 1..Len(@) |-> row]]

\* .insert(task_data) on a date that has no row
RemoteInsert(table, date, row) ==
    [table EXCEPT ![date] = Append(@, row)]

\* the unique constraint on date: an insert beside an existing row is refused
InsertConflicts(table, date) == Len(table[date]) > 0

\* .upsert(task_data): insert, or replace the row of the same date
RemoteUpsert(table, date, row) ==
    [table EXCEPT ![date] = <<row>>]

\* history: a remote call a client issued, and how the store answered it
Issued(op, rsp) == [op |-> op, rsp |-> rsp]

NoUpdates == [status |-> {}, progress |-> {}, completed_at |-> {}]

IdleCall ==
    [impl |-> "none", op |-> "none", date |-> "", tasks |-> <<>>,
     use_cache |-> FALSE, exists |-> FALSE, io |-> "ok", trace |-> <<>>,
     task_id |-> "", updates |-> NoUpdates, pulled |-> FALSE, base |-> <<>>]

NoResult ==
    [success |-> FALSE, message |-> "none", data |-> <<>>,
     error |-> "", error_type |-> "none", suggested_fix |-> ""]

Success(message, data) ==
    [success |-> TRUE, message |-> message, data |-> data,
     error |-> "", error_type |-> "none", suggested_fix |-> ""]

Failure(message, data, error, error_type, suggested_fix) ==
    [success |-> FALSE, message |-> message, data |-> data,
     error |-> error, error_type |-> error_type, suggested_fix |-> suggested_fix]

\* mutant: the network test comes before the permission test
ClassifiedFailureNetworkFirst(error_message) ==
    LET words == WordsOf(error_message)
    IN  IF "duplicate key" \in words
        THEN Failure("error_syncing", <<>>, error_message, "constraint_violation",
                     "Record already exists. Try using UPDATE instead of INSERT.")
        ELSE IF "network" \in words \/ "connection" \in words
        THEN Failure("error_syncing", <<>>, error_message, "network_error",
                     "Check internet connection and Supabase URL")
        ELSE IF "permission" \in words
        THEN Failure("error_syncing", <<>>, error_message, "permission_error",
                     "Check Supabase API key permissions")
        ELSE Failure("error_syncing", <<>>, error_message, "unknown_error",
                     "Check logs for details")

\* push_tasks_smart's except branch: the error is classified by its message
ClassifiedFailure(error_message) ==
    LET words == WordsOf(error_message)
    IN  IF "duplicate key" \in words
        THEN Failure("error_syncing", <<>>, error_message, "constraint_violation",
                     "Record already exists. Try using UPDATE instead of INSERT.")
        ELSE IF "permission" \in words
        THEN Failure("error_syncing", <<>>, error_message, "permission_error",
                     "Check Supabase API key permissions")
        ELSE IF "network" \in words \/ "connection" \in words
        THEN Failure("error_syncing", <<>>, error_message, "network_error",
                     "Check internet connection and Supabase URL")
        ELSE Failure("error_syncing", <<>>, error_message, "unknown_error",
                     "Check logs for details")

SyncInit ==
    /\ remote = [d \in Dates |-> <<>>]
    /\ local = [d \in Dates |-> <<>>]
    /\ pc = [p \in Procs |-> "idle"]
    /\ call = [p \in Procs |-> IdleCall]
    /\ result = [p \in Procs |-> NoResult]
    /\ ncalls = 0
    /\ lastSaved = [d \in Dates |-> <<>>]
    /\ accepted = {}
    /\ lastPush = [p \in Procs |-> <<>>]
    /\ active_subscriptions = <<>>
    /\ channels = 0

CanStart(p) == pc[p] \in {"idle", "done"} /\ ncalls < MaxCalls

\* history: a write by p ends every other client's "nobody wrote after my push"
OthersOverwritten(p) == [q \in Procs |-> IF q = p THEN lastPush[q] ELSE <<>>]

----------------------------------------------------------------------------
(* ImprovedTaskSync.push_tasks_smart *)

\* mutant: a failed existence query counts as "the record exists"
record_existsOnFault(table, date, fault) ==
    IF fault # "ok" THEN TRUE ELSE Len(table[date]) > 0

\* _record_exists: len(response.data) > 0, and False when the query raises
record_exists(table, date, fault) ==
    IF fault # "ok" THEN FALSE ELSE Len(table[date]) > 0

\* mutant: the branch on record_exists is lost
WriteForAlwaysInsert(exists) == "insert"

\* the write push_tasks_smart issues for the answer of _record_exists
WriteFor(exists) == IF exists THEN "update" ELSE "insert"

\* what the write does: the table afterwards and the SyncResult returned
PushSmartOutcome(table, c, fault) ==
    LET row == RowOf(c.date, c.tasks)
        kind == WriteFor(c.exists)
        updated == RemoteUpdate(table, c.date, row)
    IN  IF fault # "ok"
        THEN [table |-> table, rsp |-> "fault", result |-> ClassifiedFailure(fault)]
        ELSE IF kind = "update"
        THEN [table |-> updated,
              rsp |-> IF updated[c.date] # <<>> THEN "row" ELSE "norow",
              result |-> IF updated[c.date] # <<>>
                         THEN Success("updated", <<updated[c.date][1]>>)
                         ELSE Failure("failed_to_sync", <<>>,
                                      "No data returned from Supabase", "database_error",
                                      "Check Supabase table permissions and schema")]
        ELSE IF InsertConflicts(table, c.date)
        THEN [table |-> table, rsp |-> "conflict",
              result |-> ClassifiedFailure(DuplicateKeyMessage)]
        ELSE [table |-> RemoteInsert(table, c.date, row), rsp |-> "row",
              result |-> Success("created", <<row>>)]

\* lines 148-164: build the set, recompute its summary, save the local copy
PushSmartBegin(p) ==
    \E tasks \in PushLists, d \in Dates :
        /\ CanStart(p)
        /\ local' = SaveLocal(local, DailyTasksOf(d, tasks))
        /\ call' = [call EXCEPT ![p] =
                       [IdleCall EXCEPT !.impl = "ImprovedTaskSync", !.op = "push",
                                        !.date = d, !.tasks = tasks]]
        /\ pc' = [pc EXCEPT ![p] = "exists"]
        /\ ncalls' = ncalls + 1
        /\ lastSaved' = [lastSaved EXCEPT ![d] = <<tasks>>]
        /\ lastPush' = [q \in Procs |-> <<>>]
        /\ UNCHANGED <<remote, result, accepted>>
        /\ UNCHANGED <<taskVars, dailyVars, subsVars>>

\* lines 166-167: the existence query
PushSmartExists(p) ==
    \E fault \in RemoteFaults \cup {"ok"} :
        /\ pc[p] = "exists"
        /\ call' = [call EXCEPT
                       ![p].exists = record_exists(remote, call[p].date, fault),
                       ![p].trace = Append(@, Issued("select",
                                  IF fault # "ok" THEN "fault"
                                  ELSE IF remote[call[p].date] # <<>> THEN "row"
                                  ELSE "norow"))]
        /\ pc' = [pc EXCEPT ![p] = "write"]
        /\ UNCHANGED <<remote, local, result, ncalls, lastSaved, accepted, lastPush>>
        /\ UNCHANGED <<taskVars, dailyVars, subsVars>>

\* lines 169-218: the update or the insert, and the result
PushSmartWrite(p) ==
    \E fault \in RemoteFaults \cup {"ok"} :
        LET out == PushSmartOutcome(remote, call[p], fault)
        IN  /\ pc[p] = "write"
            /\ remote' = out.table
            /\ result' = [result EXCEPT ![p] = out.result]
            /\ call' = [call EXCEPT
                           ![p].trace = Append(@, Issued(WriteFor(call[p].exists),
                                                         out.rsp))]
            /\ pc' = [pc EXCEPT ![p] = "done"]
            /\ accepted' = IF out.result.success
                           THEN accepted \cup {call[p].tasks} ELSE accepted
            /\ lastPush' = IF out.result.success
                           THEN [q \in Procs |->
                                    IF q = p
                                    THEN <<[date |-> call[p].date, tasks |-> call[p].tasks]>>
                                    ELSE <<>>]
                           ELSE lastPush
            /\ UNCHANGED <<local, ncalls, lastSaved>>
            /\ UNCHANGED <<taskVars, dailyVars, subsVars>>

----------------------------------------------------------------------------
(* TaskSync.push_tasks *)

PushOutcome(table, c, fault) ==
    LET row == RowOf(c.date, c.tasks)
    IN  IF fault # "ok"
        THEN [table |-> table,
              result |-> Failure("error_pushing", <<>>, fault, "none", "")]
        ELSE [table |-> RemoteUpsert(table, c.date, row),
              result |-> Success("pushed", <<row>>)]

\* lines 101-117
PushBegin(p) ==
    \E tasks \in PushLists, d \in Dates :
        /\ CanStart(p)
        /\ local' = SaveLocal(local, DailyTasksOf(d, tasks))
        /\ call' = [call EXCEPT ![p] =
                       [IdleCall EXCEPT !.impl = "TaskSync", !.op = "push",
                                        !.date = d, !.tasks = tasks]]
        /\ pc' = [pc EXCEPT ![p] = "upsert"]
        /\ ncalls' = ncalls + 1
        /\ lastSaved' = [lastSaved EXCEPT ![d] = <<tasks>>]
        /\ lastPush' = [q \in Procs |-> <<>>]
        /\ UNCHANGED <<remote, result, accepted>>
        /\ UNCHANGED <<taskVars, dailyVars, subsVars>>

\* lines 119-140
PushUpsert(p) ==
    \E fault \in RemoteFaults \cup {"ok"} :
        LET out == PushOutcome(remote, call[p], fault)
        IN  /\ pc[p] = "upsert"
            /\ remote' = out.table
            /\ result' = [result EXCEPT ![p] = out.result]
            /\ call' = [call EXCEPT
                           ![p].trace = Append(@, Issued("upsert",
                                      IF fault # "ok" THEN "fault" ELSE "row"))]
            /\ pc' = [pc EXCEPT ![p] = "done"]
            /\ accepted' = IF out.result.success
                           THEN accepted \cup {call[p].tasks} ELSE accepted
            /\ lastPush' = IF out.result.success
                           THEN [q \in Procs |->
                                    IF q = p
                                    THEN <<[date |-> call[p].date, tasks |-> call[p].tasks]>>
                                    ELSE <<>>]
                           ELSE lastPush
            /\ UNCHANGED <<local, ncalls, lastSaved>>
            /\ UNCHANGED <<taskVars, dailyVars, subsVars>>

----------------------------------------------------------------------------
(* pull_tasks of ImprovedTaskSync and of TaskSync *)

Impls == {"TaskSync", "ImprovedTaskSync"}

\* data={'date': target_date, 'tasks': [], 'summary': {}}
NoTasksData(date) == [date |-> date, tasks |-> <<>>, summary |-> [empty |-> TRUE]]

\* mutant: the except branch reports the error without trying the cache
ImprovedPullExceptNoFallback(files, date, error_message, clock) ==
    Failure("error_pulling", <<>>, error_message, "database_error",
            "Check connection and try local cache")

\* sync_improved.py lines 287-303: the except branch
ImprovedPullExcept(files, date, error_message, clock) ==
    LET cached == LoadLocal(files, date, clock)
    IN  IF cached # <<>>
        THEN Success("cache_remote_error", cached)
        ELSE Failure("error_pulling", <<>>, error_message, "database_error",
                     "Check connection and try local cache")

\* sync_improved.py lines 253-303: the remote query and what follows it
ImprovedPullOutcome(table, files, date, fault, clock) ==
    LET rows == table[date]
        cached == LoadLocal(files, date, clock)
    IN  IF fault # "ok"
        THEN [files |-> files, saved |-> FALSE, rsp |-> "fault",
              result |-> ImprovedPullExcept(files, date, fault, clock)]
        ELSE IF rows # <<>> /\ ~TasksOk(rows[1].tasks)
        THEN [files |-> files, saved |-> FALSE, rsp |-> "row",
              result |-> ImprovedPullExcept(files, date, "validation error", clock)]
        ELSE IF rows # <<>>
        THEN LET daily_tasks == ParseDailyTasks(rows[1], clock)
             IN  [files |-> SaveLocal(files, daily_tasks), saved |-> TRUE, rsp |-> "row",
                  result |-> Success("pulled", <<daily_tasks>>)]
        ELSE IF cached # <<>>
        THEN [files |-> files, saved |-> FALSE, rsp |-> "norow",
              result |-> Success("cache_no_remote_data", cached)]
        ELSE [files |-> files, saved |-> FALSE, rsp |-> "norow",
              result |-> Success("none_found", <<EmptyDailyTasks(date)>>)]

\* sync.py lines 197-212: the except branch
PullExcept(files, date, use_cache, error_message, clock) ==
    LET cached == IF use_cache THEN <<>> ELSE LoadLocal(files, date, clock)
    IN  IF cached # <<>>
        THEN Success("cache_remote_error", cached)
        ELSE Failure("error_pulling", <<>>, error_message, "none", "")

\* sync.py lines 167-212: .single() on a date without a row either raises or
\* answers without data, by the client library's version
PullOutcome(table, files, date, use_cache, fault, raises_on_empty, clock) ==
    LET rows == table[date]
    IN  IF fault # "ok"
        THEN [files |-> files, saved |-> FALSE, rsp |-> "fault",
              result |-> PullExcept(files, date, use_cache, fault, clock)]
        ELSE IF rows = <<>> /\ raises_on_empty
        THEN [files |-> files, saved |-> FALSE, rsp |-> "norow",
              result |-> PullExcept(files, date, use_cache, NoRowsMessage, clock)]
        ELSE IF rows = <<>>
        THEN [files |-> files, saved |-> FALSE, rsp |-> "norow",
              result |-> Failure("none_found", <<NoTasksData(date)>>, "", "none", "")]
        ELSE IF ~TasksOk(rows[1].tasks)
        THEN [files |-> files, saved |-> FALSE, rsp |-> "row",
              result |-> PullExcept(files, date, use_cache, "validation error", clock)]
        ELSE LET daily_tasks == ParseDailyTasks(rows[1], clock)
             IN  [files |-> SaveLocal(files, daily_tasks), saved |-> TRUE, rsp |-> "row",
                  result |-> Success("pulled", <<daily_tasks>>)]

\* mutant: the cache is never taken first
CacheHitNever(use_cache, cached) == FALSE

\* if use_cache: local_data = self._load_local_copy(...); if local_data: return
CacheHit(use_cache, cached) == use_cache /\ cached # <<>>

\* the cache-first branch of both pull_tasks: a snapshot that loads is returned
\* without a remote call
PullBegin(p) ==
    \E impl \in Impls, d \in Dates, use_cache \in BOOLEAN :
        LET cached == LoadLocal(local, d, now)
            hit == CacheHit(use_cache, cached)
            follows == /\ ~use_cache
                       /\ lastPush[p] # <<>>
                       /\ call[p].op = "push"
                       /\ call[p].date = d
        IN  /\ CanStart(p)
            /\ call' = [call EXCEPT ![p] =
                           [IdleCall EXCEPT !.impl = impl, !.op = "pull", !.date = d,
                                            !.use_cache = use_cache]]
            /\ ncalls' = ncalls + 1
            /\ pc' = [pc EXCEPT ![p] = IF hit THEN "done" ELSE "query"]
            /\ result' = IF hit
                         THEN [result EXCEPT ![p] = Success("cache", cached)]
                         ELSE result
            /\ lastPush' = [lastPush EXCEPT ![p] = IF follows THEN @ ELSE <<>>]
            /\ UNCHANGED <<remote, local, lastSaved, accepted>>
            /\ UNCHANGED <<taskVars, dailyVars, subsVars>>

PullQuery(p) ==
    \E fault \in RemoteFaults \cup {"ok"}, raises_on_empty \in BOOLEAN :
        LET c == call[p]
            out == IF c.impl = "ImprovedTaskSync"
                   THEN ImprovedPullOutcome(remote, local, c.date, fault, now)
                   ELSE PullOutcome(remote, local, c.date, c.use_cache, fault,
                                    raises_on_empty, now)
        IN  /\ pc[p] = "query"
            /\ local' = out.files
            /\ result' = [result EXCEPT ![p] = out.result]
            /\ call' = [call EXCEPT ![p].trace = Append(@, Issued("select", out.rsp))]
            /\ pc' = [pc EXCEPT ![p] = "done"]
            /\ lastPush' = IF out.saved THEN OthersOverwritten(p) ELSE lastPush
            /\ lastSaved' = IF out.saved
                            THEN [lastSaved EXCEPT ![c.date] = <<out.result.data[1].tasks>>]
                            ELSE lastSaved
            /\ UNCHANGED <<remote, ncalls, accepted>>
            /\ UNCHANGED <<taskVars, dailyVars, subsVars>>

----------------------------------------------------------------------------
(* ImprovedTaskSync with failing local I/O and the remote errors it classifies *)

Client == {"c1"}

\* a task whose progress was assigned after construction
OverRangeTask == [TaskA EXCEPT !.progress = 150]

FaultyPushLists == PushLists \cup {<<OverRangeTask>>}

InvalidDate == "29-01-2025"

\* the ValueError of validate_date_format
DateErrorMessage == "Date must be in YYYY-MM-DD format"

WriteFaults ==
    RemoteFaults \cup {"permission denied for table daily_tasks",
                       "connection refused",
                       "Network connection lost: permission denied",
                       "statement timeout"}

\* mutant: a failed local save ends the push
AfterSaveAborting(io) == IF io = "ok" THEN "exists" ELSE "done"

\* _save_local_copy returns normally whatever happened: line 166 is next
AfterSave(io) == "exists"

\* lines 148-164 with a date that may be malformed and a save that may fail
FaultyPushSmartBegin(p) ==
    \E tasks \in FaultyPushLists, d \in Dates \cup {InvalidDate}, io \in IoOutcomes :
        LET c == [IdleCall EXCEPT !.impl = "ImprovedTaskSync", !.op = "push",
                                  !.date = d, !.tasks = tasks, !.io = io]
            saved == d \in Dates /\ io = "ok"
        IN  /\ CanStart(p)
            /\ ncalls' = ncalls + 1
            /\ call' = [call EXCEPT ![p] = c]
            /\ local' = IF d \in Dates
                        THEN SaveLocalOutcome(local, DailyTasksOf(d, tasks), io)
                        ELSE local
            /\ pc' = [pc EXCEPT ![p] = IF d \in Dates THEN AfterSave(io) ELSE "done"]
            /\ result' = IF d \in Dates THEN result
                         ELSE [result EXCEPT ![p] = ClassifiedFailure(DateErrorMessage)]
            /\ lastSaved' = IF saved THEN [lastSaved EXCEPT ![d] = <<tasks>>]
                            ELSE lastSaved
            /\ lastPush' = IF saved THEN [q \in Procs |-> <<>>]
                           ELSE [lastPush EXCEPT ![p] = <<>>]
            /\ UNCHANGED <<remote, accepted>>
            /\ UNCHANGED <<taskVars, dailyVars, subsVars>>

\* lines 181-194: a write the store answers without data
NoDataOutcome(table) ==
    [table |-> table, rsp |-> "norow",
     result |-> Failure("failed_to_sync", <<>>, "No data returned from Supabase",
                        "database_error",
                        "Check Supabase table permissions and schema")]

\* lines 169-218 with every error the except branch tells apart
FaultyPushSmartWrite(p) ==
    \E fault \in WriteFaults \cup {"ok", "no data"} :
        LET out == IF fault = "no data" THEN NoDataOutcome(remote)
                   ELSE PushSmartOutcome(remote, call[p], fault)
        IN  /\ pc[p] = "write"
            /\ remote' = out.table
            /\ result' = [result EXCEPT ![p] = out.result]
            /\ call' = [call EXCEPT
                           ![p].trace = Append(@, Issued(WriteFor(call[p].exists),
                                                         out.rsp))]
            /\ pc' = [pc EXCEPT ![p] = "done"]
            /\ accepted' = IF out.result.success
                           THEN accepted \cup {call[p].tasks} ELSE accepted
            /\ lastPush' = IF out.result.success
                           THEN [q \in Procs |->
                                    IF q = p
                                    THEN <<[date |-> call[p].date, tasks |-> call[p].tasks]>>
                                    ELSE <<>>]
                           ELSE lastPush
            /\ UNCHANGED <<local, ncalls, lastSaved>>
            /\ UNCHANGED <<taskVars, dailyVars, subsVars>>

FaultsNext ==
    \E p \in Client :
        \/ FaultyPushSmartBegin(p)
        \/ PushSmartExists(p)
        \/ FaultyPushSmartWrite(p)
        \/ PullBegin(p)
        \/ PullQuery(p)

----------------------------------------------------------------------------
(* TaskSync.subscribe_to_changes and unsubscribe *)

\* f"sub_{len(self.active_subscriptions)}"
SubscriptionId(subscriptions) == "sub_" \o ToString(Len(subscriptions))

\* the ids a caller can hold, and the empty id of a failed subscribe
KnownIds == {"sub_" \o ToString(n) : n \in 0..(MaxChannels - 1)} \cup {""}

\* the position the loop of unsubscribe stops at: the first pair with the id
FirstWithId(subscriptions, subscription_id) ==
    LET hits == {i \in 1..Len(subscriptions) :
                    subscriptions[i].id = subscription_id}
    IN  IF hits = {} THEN 0
        ELSE CHOOSE i \in hits : \A j \in hits : i <= j

\* del self.active_subscriptions[i]
WithoutIndex(subscriptions, i) ==
    [k \in 1..(Len(subscriptions) - 1) |->
        IF k < i THEN subscriptions[k] ELSE subscriptions[k + 1]]

\* subscribe_to_changes: the channel is created and subscribed, the pair is
\* appended and the id returned; when realtime is not available "" is returned
Subscribe ==
    \E d \in Dates, available \in BOOLEAN :
        /\ channels < MaxChannels
        /\ IF available
           THEN /\ channels' = channels + 1
                /\ active_subscriptions' =
                      Append(active_subscriptions,
                             [id |-> SubscriptionId(active_subscriptions),
                              channel |-> channels + 1, date |-> d])
                /\ ret' = SubscriptionId(active_subscriptions)
           ELSE /\ ret' = ""
                /\ UNCHANGED subsVars
        /\ UNCHANGED <<task, now>>
        /\ UNCHANGED <<storeVars, dailyVars>>

\* unsubscribe: the first pair with the id is removed; False when there is
\* none or when remove_channel raises
Unsubscribe ==
    \E subscription_id \in KnownIds, raises \in BOOLEAN :
        LET i == FirstWithId(active_subscriptions, subscription_id)
        IN  /\ IF i = 0 \/ raises
               THEN /\ ret' = "False"
                    /\ UNCHANGED subsVars
               ELSE /\ ret' = "True"
                    /\ active_subscriptions' = WithoutIndex(active_subscriptions, i)
                    /\ UNCHANGED channels
            /\ UNCHANGED <<task, now>>
            /\ UNCHANGED <<storeVars, dailyVars>>

SubsNext ==
    \/ Subscribe
    \/ Unsubscribe

----------------------------------------------------------------------------
(* TaskSync.update_task *)

\* the ids and the field changes a caller passes to update_task
UpdateIds == {"a", "b"}

UpdateChoices ==
    {[NoUpdates EXCEPT !.status = {IN_PROGRESS}, !.progress = {50}],
     [NoUpdates EXCEPT !.progress = {150}]}

\* mutant: the task counts as found whatever the id
FoundInAlways(tasks, task_id) == TRUE

\* the loop over daily_tasks.tasks reaches a task of that id
FoundIn(tasks, task_id) == \E i \in 1..Len(tasks) : tasks[i].id = task_id

\* lines 237-247: the first task of that id gets the updates assigned
UpdatedTasks(tasks, task_id, updates, clock) ==
    LET hits == {i \in 1..Len(tasks) : tasks[i].id = task_id}
        first == IF hits = {} THEN 0
                 ELSE CHOOSE i \in hits : \A j \in hits : i <= j
    IN  [i \in 1..Len(tasks) |->
            IF i = first THEN ApplyUpdates(tasks[i], updates, clock) ELSE tasks[i]]

\* lines 235-257 and push_tasks up to its local save: what follows a pull
\* that succeeded with data
UpdateOutcome(files, data, c, clock) ==
    LET daily_tasks == ParseDailyTasks(data, clock)
        tasks == UpdatedTasks(daily_tasks.tasks, c.task_id, c.updates, clock)
    IN  IF ~FoundIn(daily_tasks.tasks, c.task_id)
        THEN [files |-> files, pushing |-> FALSE, tasks |-> <<>>,
              base |-> daily_tasks.tasks,
              result |-> Failure("task_not_found", <<>>, "Task not found", "none", "")]
        ELSE [files |-> SaveLocal(files, DailyTasksOf(c.date, tasks)),
              pushing |-> TRUE, tasks |-> tasks,
              base |-> daily_tasks.tasks,
              result |-> NoResult]

\* lines 225-228: the call and its arguments
UpdateBegin(p) ==
    \E task_id \in UpdateIds, updates \in UpdateChoices, d \in Dates :
        /\ CanStart(p)
        /\ ncalls' = ncalls + 1
        /\ call' = [call EXCEPT ![p] =
                       [IdleCall EXCEPT !.impl = "TaskSync", !.op = "update",
                                        !.date = d, !.use_cache = TRUE,
                                        !.task_id = task_id, !.updates = updates]]
        /\ pc' = [pc EXCEPT ![p] = "pulling"]
        /\ lastPush' = [lastPush EXCEPT ![p] = <<>>]
        /\ UNCHANGED <<remote, local, result, lastSaved, accepted>>
        /\ UNCHANGED <<taskVars, dailyVars, subsVars>>

\* pull_tasks(target_date) at its default use_cache=True: a snapshot that
\* loads is returned without a remote call, otherwise the remote is queried
UpdatePullOutcome(table, files, date, fault, raises_on_empty, clock) ==
    LET cached == LoadLocal(files, date, clock)
    IN  IF cached # <<>>
        THEN [files |-> files, saved |-> FALSE, rsp |-> "none",
              result |-> Success("cache", cached)]
        ELSE PullOutcome(table, files, date, TRUE, fault, raises_on_empty, clock)

\* lines 231-257: the pull, the change of the task, and push_tasks up to its
\* local save
UpdatePull(p) ==
    \E fault \in RemoteFaults \cup {"ok"}, raises_on_empty \in BOOLEAN :
        LET c == call[p]
            pulled == UpdatePullOutcome(remote, local, c.date, fault,
                                        raises_on_empty, now)
            out == UpdateOutcome(pulled.files, pulled.result.data[1], c, now)
            pushing == pulled.result.success /\ out.pushing
        IN  /\ pc[p] = "pulling"
            /\ call' = [call EXCEPT ![p] =
                           [c EXCEPT !.trace = IF pulled.rsp = "none" THEN @
                                               ELSE Append(@, Issued("select", pulled.rsp)),
                                     !.tasks = IF pushing THEN out.tasks ELSE @,
                                     !.pulled = pulled.result.success,
                                     !.base = IF pulled.result.success
                                              THEN out.base ELSE @]]
            /\ pc' = [pc EXCEPT ![p] = IF pushing THEN "upsert" ELSE "done"]
            /\ local' = IF pulled.result.success THEN out.files ELSE pulled.files
            /\ result' = IF ~pulled.result.success
                         THEN [result EXCEPT ![p] = pulled.result]
                         ELSE IF ~out.pushing
                         THEN [result EXCEPT ![p] = out.result]
                         ELSE result
            /\ lastSaved' = IF pushing
                            THEN [lastSaved EXCEPT ![c.date] = <<out.tasks>>]
                            ELSE IF pulled.saved
                            THEN [lastSaved EXCEPT ![c.date] =
                                     <<pulled.result.data[1].tasks>>]
                            ELSE lastSaved
            /\ lastPush' = IF pushing THEN [q \in Procs |-> <<>>]
                           ELSE IF pulled.saved THEN OthersOverwritten(p)
                           ELSE lastPush
            /\ UNCHANGED <<remote, ncalls, accepted>>
            /\ UNCHANGED <<taskVars, dailyVars, subsVars>>

UpdateNext ==
    \E p \in Procs :
        \/ PushBegin(p)
        \/ PushUpsert(p)
        \/ UpdateBegin(p)
        \/ UpdatePull(p)

----------------------------------------------------------------------------
(* SpecDaily: one DailyTasks object under its operations *)

\* Task(id=..., status=..., priority=..., category=..., estimated_minutes=...)
TaskOf(id, status, priority, category, estimated_minutes) ==
    [Construct(id, status, {}, {}, 0) EXCEPT
        !.priority = priority,
        !.category = category,
        !.estimated_minutes = estimated_minutes]

\* the Task objects a caller adds; each call passes a newly built object, and
\* two of them carry the id "a"
TaskPool ==
    {TaskA, TaskB,
     TaskOf("c", IN_PROGRESS, "P1", "development", 120),
     TaskOf("d", BLOCKED, "P3", "planning", 45),
     TaskOf("a", CANCELLED, "P2", "admin", 60)}

TaskIds == {t.id : t \in TaskPool} \cup {"z"}

NoDaily == daily = EmptyDailyTasks("2025-01-29")

DailyInit ==
    /\ now = 0
    /\ ret = "none"
    /\ task = TaskA
    /\ \E tasks \in {<<>>} \cup {<<t>> : t \in TaskPool} :
          daily = ConstructDaily("2025-01-29", tasks)

DailyAddTask ==
    \E t \in TaskPool :
        /\ Len(daily.tasks) < MaxTasks
        /\ daily' = add_task(daily, t)
        /\ ret' = "none"
        /\ UNCHANGED <<task, now>>
        /\ UNCHANGED syncVars

DailyRemoveTask ==
    \E task_id \in TaskIds :
        /\ daily' = remove_task(daily, task_id)
        /\ ret' = IF HasTask(daily, task_id) THEN "True" ELSE "False"
        /\ UNCHANGED <<task, now>>
        /\ UNCHANGED syncVars

\* t = daily.get_task(task_id); if t: t.mark_completed()
DailyMarkCompleted ==
    \E task_id \in TaskIds :
        /\ HasTask(daily, task_id)
        /\ daily' = [daily EXCEPT
                        !.tasks[get_task(daily, task_id)] = mark_completed(@, now)]
        /\ ret' = "none"
        /\ UNCHANGED <<task, now>>
        /\ UNCHANGED syncVars

DailyUpdateSummary ==
    /\ daily' = update_summary(daily)
    /\ ret' = "none"
    /\ UNCHANGED <<task, now>>
    /\ UNCHANGED syncVars

DailyNext ==
    \/ DailyAddTask
    \/ DailyRemoveTask
    \/ DailyMarkCompleted
    \/ DailyUpdateSummary

----------------------------------------------------------------------------
(* Spec: the clients against the remote table *)

Init ==
    /\ SyncInit
    /\ NoDaily
    /\ task = TaskA
    /\ now = 0
    /\ ret = "none"

Next ==
    \E p \in Procs :
        \/ PushSmartBegin(p)
        \/ PushSmartExists(p)
        \/ PushSmartWrite(p)
        \/ PushBegin(p)
        \/ PushUpsert(p)
        \/ PullBegin(p)
        \/ PullQuery(p)

Spec == Init /\ [][Next]_vars

(* SpecTask: one Task object under its operations *)

InitTask == TaskInit /\ SyncInit /\ NoDaily

SpecTask == InitTask /\ [][TaskNext]_vars

(* SpecSubtasks: one Task with many subtasks *)

InitSubtasks == SubtasksInit /\ SyncInit /\ NoDaily

SpecSubtasks == InitSubtasks /\ [][SubtasksNext]_vars

(* SpecUpdate: clients pushing and updating single tasks *)

SpecUpdate == Init /\ [][UpdateNext]_vars

(* SpecFaults: one client with failing local I/O and remote errors *)

SpecFaults == Init /\ [][FaultsNext]_vars

(* SpecSubs: one TaskSync object's realtime subscriptions *)

SpecSubs == Init /\ [][SubsNext]_vars

(* SpecDaily: one DailyTasks object under its operations *)

InitDaily == DailyInit /\ SyncInit

SpecDaily == InitDaily /\ [][DailyNext]_vars

----------------------------------------------------------------------------
(* Properties of the clients (Spec) *)

IsPush(p, impl) == call[p].impl = impl /\ call[p].op = "push"

IsPull(p) == call[p].op = "pull"

Finished(p) == pc[p] = "done"

LastIssued(p) ==
    IF call[p].trace = <<>> THEN Issued("none", "none")
    ELSE call[p].trace[Len(call[p].trace)]

\* a task list as Task(**dict) rebuilds it
Validated(tasks) == [i \in 1..Len(tasks) |-> Revalidate(tasks[i], now)]

\* C1: a push_tasks_smart call whose existence query answered "no record" and
\* whose insert reached the store (two such calls race on a new date) returns
\* success, the loser of the race through an update retry, and the date holds
\* exactly one row.
C1_RacingPushesBothSucceed ==
    \A p \in Procs :
        (/\ Finished(p)
         /\ IsPush(p, "ImprovedTaskSync")
         /\ call[p].trace[1] = Issued("select", "norow")
         /\ call[p].trace[2].op = "insert"
         /\ call[p].trace[2].rsp # "fault")
        => /\ result[p].success
           /\ Len(remote[call[p].date]) = 1

\* C2: push_tasks_smart issues the existence query first and then exactly one
\* write chosen by the query's answer: an update and no insert when the query
\* found a row, an insert and no update when it found none.
C2_OneWriteChosenByAnswer ==
    \A p \in Procs :
        IsPush(p, "ImprovedTaskSync") =>
            /\ pc[p] = "exists" => call[p].trace = <<>>
            /\ pc[p] = "write" =>
                  /\ Len(call[p].trace) = 1
                  /\ call[p].trace[1].op = "select"
            /\ Finished(p) =>
                  /\ Len(call[p].trace) = 2
                  /\ call[p].trace[1].op = "select"
                  /\ call[p].trace[1].rsp = "row" => call[p].trace[2].op = "update"
                  /\ call[p].trace[1].rsp = "norow" => call[p].trace[2].op = "insert"

C2_Witness ==
    \E p \in Procs :
        /\ Finished(p)
        /\ IsPush(p, "ImprovedTaskSync")
        /\ call[p].trace[1] = Issued("select", "row")
        /\ call[p].trace[2] = Issued("update", "row")
        /\ result[p].success

\* C3: a pull_tasks(date, use_cache=False) whose remote query fails, for a date
\* whose local snapshot loads, returns success with the snapshot's tasks and
\* summary and the message that marks a cache fallback, and leaves the
\* snapshot as it was.
C3_FallbackServesCache ==
    [][\A p \in Procs :
          (/\ pc[p] = "query"
           /\ pc'[p] = "done"
           /\ ~call[p].use_cache
           /\ LastIssued(p)' = Issued("select", "fault")
           /\ LoadLocal(local, call[p].date, now) # <<>>)
          => /\ result'[p].success
             /\ result'[p].message = "cache_remote_error"
             /\ result'[p].data = LoadLocal(local, call[p].date, now)
             /\ local' = local]_vars

C3_Witness ==
    \E p \in Procs :
        /\ Finished(p)
        /\ IsPull(p)
        /\ ~call[p].use_cache
        /\ LastIssued(p) = Issued("select", "fault")
        /\ result[p].success
        /\ result[p].message = "cache_remote_error"
        /\ result[p].data = local[call[p].date]

\* C4: pull_tasks, of TaskSync and of ImprovedTaskSync, for a date with no
\* remote row and no local snapshot returns success with an empty task list.
C4_NoDataIsSuccess ==
    \A p \in Procs :
        (/\ Finished(p)
         /\ IsPull(p)
         /\ LastIssued(p) = Issued("select", "norow")
         /\ remote[call[p].date] = <<>>
         /\ local[call[p].date] = <<>>)
        => /\ result[p].success
           /\ result[p].data # <<>>
           /\ result[p].data[1].tasks = <<>>

MidPush(p) == pc[p] \in {"exists", "write", "upsert"}

\* C5 (as claimed): a pull that falls back to the local snapshot because the
\* remote call failed returns data the remote store accepted before; a push
\* whose remote write failed does not change it.
C5_FallbackIsRemoteAccepted ==
    \A p \in Procs :
        (/\ Finished(p)
         /\ IsPull(p)
         /\ result[p].message = "cache_remote_error"
         /\ \A q \in Procs : ~MidPush(q))
        => result[p].data[1].tasks \in {Validated(tasks) : tasks \in accepted}

\* C5 (amended): a pull that falls back to the local snapshot because the
\* remote call failed returns the snapshot saved last for the date: the task
\* list of the latest push, saved before its remote write and kept when that
\* write fails, or the data a later pull got from the remote store.
C5_FallbackIsLastSaved ==
    [][\A p \in Procs :
          (/\ pc[p] = "query"
           /\ pc'[p] = "done"
           /\ result'[p].message = "cache_remote_error")
          => /\ lastSaved[call[p].date] # <<>>
             /\ result'[p].data[1].tasks = Validated(lastSaved[call[p].date][1])]_vars

C5_Witness ==
    \E p \in Procs :
        /\ Finished(p)
        /\ IsPull(p)
        /\ result[p].message = "cache_remote_error"
        /\ \A q \in Procs : ~MidPush(q)
        /\ accepted = {}
        /\ result[p].data[1].tasks # <<>>

\* C6: a successful push of a task list followed at once, with no other writer
\* in between, by pull_tasks(date, use_cache=False) returns a task list equal
\* to the pushed one, element by element and in the same order.
C6_PushThenPullReturnsPushed ==
    \A p \in Procs :
        (/\ Finished(p)
         /\ IsPull(p)
         /\ lastPush[p] # <<>>
         /\ result[p].success)
        => result[p].data[1].tasks = lastPush[p][1].tasks

OnlyClient(p) == \A q \in Procs \ {p} : call[q].op = "none"

HoldsExactly(store, date, tasks) ==
    /\ Len(store[date]) = 1
    /\ store[date][1].tasks = tasks

----------------------------------------------------------------------------
(* Properties of a Task (SpecTask) *)

\* C8: in every reachable state of a Task, status == completed implies
\* progress == 100.
C8_CompletedImpliesProgress100 ==
    task.status = COMPLETED => task.progress = 100

\* C9: in every reachable state of a Task, status == not_started implies
\* progress == 0.
C9_NotStartedImpliesProgress0 ==
    task.status = NOT_STARTED => task.progress = 0

\* C10: in every reachable state of a Task, completed_at is set if and only if
\* status == completed.
C10_CompletedAtIffCompleted ==
    (task.completed_at # NoTime) <=> (task.status = COMPLETED)

----------------------------------------------------------------------------
(* Properties of complete_subtask (SpecTask, SpecSubtasks) *)

\* a step in which complete_subtask found the subtask and returned True
CompletesSubtask(subtask_id) ==
    /\ HasSubtask(task, subtask_id)
    /\ task' = complete_subtask(task, subtask_id, now)
    /\ now' = now
    /\ ret' = "True"

AllSubtasksCompleted(t) == CompletedCount(t.subtasks) = Len(t.subtasks)

\* C11: a complete_subtask call after which every subtask of the task is
\* completed leaves the task completed, at progress 100 and with
\* completed_at set, whatever its status was before the call.
C11_LastSubtaskCompletesTask ==
    [][\A subtask_id \in SubtaskIds :
          CompletesSubtask(subtask_id) /\ AllSubtasksCompleted(task')
          => /\ task'.status = COMPLETED
             /\ task'.progress = ProgressMax
             /\ task'.completed_at # NoTime]_vars

\* C12: a complete_subtask call after which fewer than all subtasks are
\* completed sets progress to floor(100 * completed / total) and leaves
\* status and completed_at as they were.
C12_PartialCompletionSetsFloor ==
    [][\A subtask_id \in 1..ManySubtasks :
          CompletesSubtask(subtask_id) /\ ~AllSubtasksCompleted(task')
          => /\ task'.progress =
                    (100 * CompletedCount(task'.subtasks)) \div Len(task'.subtasks)
             /\ task'.status = task.status
             /\ task'.completed_at = task.completed_at]_vars

----------------------------------------------------------------------------
(* Properties of DailyTasks and DaySummary.from_tasks (SpecDaily) *)

\* C13: after every operation on a DailyTasks object (construction with
\* tasks, add_task, remove_task, mutation of one of its tasks) the stored
\* summary equals DaySummary.from_tasks of its task list.
C13_SummaryNeverDrifts == daily.summary = from_tasks(daily.tasks)

StatusCount(tasks, statuses) ==
    Cardinality({i \in 1..Len(tasks) : tasks[i].status \in statuses})

\* C14: from_tasks partitions the tasks by status: completed, in progress,
\* blocked and the tasks that are not started or cancelled add up to
\* total_tasks, which is the length of the list.
C14_StatusCountsPartition ==
    LET s == from_tasks(daily.tasks)
    IN  /\ s.total_tasks = Len(daily.tasks)
        /\ s.completed_tasks + s.in_progress_tasks + s.blocked_tasks
             + StatusCount(daily.tasks, {NOT_STARTED, CANCELLED}) = s.total_tasks
        /\ s.completed_tasks = StatusCount(daily.tasks, {COMPLETED})
        /\ s.in_progress_tasks = StatusCount(daily.tasks, {IN_PROGRESS})
        /\ s.blocked_tasks = StatusCount(daily.tasks, {BLOCKED})

\* a summary computed by add_task over a list with a task in every bucket
C14_Witness ==
    /\ Len(daily.tasks) = 3
    /\ daily.summary = from_tasks(daily.tasks)
    /\ daily.summary.completed_tasks = 1
    /\ daily.summary.in_progress_tasks = 1
    /\ StatusCount(daily.tasks, {NOT_STARTED, CANCELLED}) = 1

Distance(a, b) == IF a >= b THEN a - b ELSE b - a

\* C15: completion_percentage is 100 * completed_tasks / total_tasks rounded
\* to one decimal place (no tenth is nearer to the exact value), 0 for the
\* empty list, and 33.3 for 1 completed task of 3.
C15_CompletionPercentageRounded ==
    LET s == from_tasks(daily.tasks)
        total == Len(daily.tasks)
        completed == StatusCount(daily.tasks, {COMPLETED})
    IN  /\ total = 0 => s.completion_percentage = 0
        /\ total > 0 =>
              2 * Distance(s.completion_percentage * total, 1000 * completed) <= total
        /\ total = 3 /\ completed = 1 => s.completion_percentage = 333

\* 1 completed task of 3, summarised by add_task
C15_Witness ==
    /\ Len(daily.tasks) = 3
    /\ StatusCount(daily.tasks, {COMPLETED}) = 1
    /\ daily.summary = from_tasks(daily.tasks)
    /\ daily.summary.completion_percentage = 333

RECURSIVE SumValues(_)
SumValues(f) ==
    IF DOMAIN f = {} THEN 0
    ELSE LET k == CHOOSE x \in DOMAIN f : TRUE
         IN  f[k] + SumValues([x \in DOMAIN f \ {k} |-> f[x]])

\* C16: the categories and priorities maps of from_tasks are exact frequency
\* maps: a key's value is the number of tasks with that category (priority),
\* a key with no task is absent, and the values of each map add up to
\* total_tasks.
C16_BreakdownsAreFrequencyMaps ==
    LET s == from_tasks(daily.tasks)
        withCategory(k) == {i \in 1..Len(daily.tasks) : daily.tasks[i].category = k}
        withPriority(k) == {i \in 1..Len(daily.tasks) : daily.tasks[i].priority = k}
    IN  /\ DOMAIN s.categories = {k \in Category : withCategory(k) # {}}
        /\ \A k \in DOMAIN s.categories :
              s.categories[k] = Cardinality(withCategory(k))
        /\ SumValues(s.categories) = s.total_tasks
        /\ DOMAIN s.priorities = {k \in Priority : withPriority(k) # {}}
        /\ \A k \in DOMAIN s.priorities :
              s.priorities[k] = Cardinality(withPriority(k))
        /\ SumValues(s.priorities) = s.total_tasks

\* a summary computed by add_task where a category occurs twice and others
\* do not occur
C16_Witness ==
    /\ Len(daily.tasks) = 3
    /\ daily.summary = from_tasks(daily.tasks)
    /\ \E k \in DOMAIN daily.summary.categories : daily.summary.categories[k] = 2
    /\ Cardinality(DOMAIN daily.summary.categories) = 2
    /\ Cardinality(DOMAIN daily.summary.priorities) = 2

\* C17: after any sequence of add_task and remove_task calls the ids of the
\* tasks of the set are pairwise distinct.
C17_TaskIdsDistinct ==
    \A i, j \in 1..Len(daily.tasks) :
        daily.tasks[i].id = daily.tasks[j].id => i = j

----------------------------------------------------------------------------
(* Properties of update_task (SpecUpdate) *)

\* a step in which client p's update_task gets the answer of its pull
UpdateReads(p) == pc[p] = "pulling" /\ pc'[p] # "pulling"

\* C18: update_task reads the task set remote-first: the set it changes and
\* pushes is the one the remote record holds when the update is issued, not
\* an older cached list.
C18_UpdateAppliesToRemoteList ==
    [][\A p \in Procs :
          LET d == call'[p].date
          IN  UpdateReads(p) /\ call'[p].pulled
              /\ remote[d] # <<>> /\ TasksOk(remote[d][1].tasks)
              => call'[p].base = Validated(remote[d][1].tasks)]_vars

\* C19: update_task for an id that is not in the pulled set returns the
\* failure "Task not found", issues no remote write and leaves the remote
\* record unchanged.
C19_UnknownIdFailsWithoutWrite ==
    [][\A p \in Procs :
          UpdateReads(p) /\ call'[p].pulled
          /\ (\A i \in 1..Len(call'[p].base) : call'[p].base[i].id # call'[p].task_id)
          => /\ pc'[p] = "done"
             /\ ~result'[p].success
             /\ result'[p].error = "Task not found"
             /\ \A i \in 1..Len(call'[p].trace) : call'[p].trace[i].op = "select"
             /\ remote' = remote]_vars

\* an update for an id the stored set does not have has finished
C19_Witness ==
    \E p \in Procs :
        /\ call[p].op = "update"
        /\ pc[p] = "done"
        /\ call[p].pulled
        /\ result[p].error = "Task not found"
        /\ remote[call[p].date] # <<>>
        /\ \A i \in 1..Len(call[p].base) : call[p].base[i].id # call[p].task_id

FieldsOk(t) ==
    /\ t.progress >= ProgressMin /\ t.progress <= ProgressMax
    /\ t.estimated_minutes >= 5 /\ t.estimated_minutes <= 480
    /\ t.actual_minutes >= 0
    /\ t.status \in TaskStatus
    /\ t.priority \in Priority

AllFieldsOk(tasks) == \A i \in 1..Len(tasks) : FieldsOk(tasks[i])

\* C20: no stored or pushed Task is outside the field constraints: an
\* out-of-range value in a field assignment is rejected and never reaches a
\* snapshot, a push or the remote table.
C20_StoredTasksWithinConstraints ==
    /\ \A d \in Dates :
          /\ remote[d] # <<>> => AllFieldsOk(remote[d][1].tasks)
          /\ local[d] # <<>> => AllFieldsOk(local[d][1].tasks)
    /\ \A p \in Procs : AllFieldsOk(call[p].tasks)

----------------------------------------------------------------------------
(* Properties of pull_tasks (Spec) *)

\* a step in which client p starts a call
Starts(p) ==
    /\ pc[p] \in {"idle", "done"}
    /\ ncalls' = ncalls + 1
    /\ <<pc'[p], call'[p], result'[p]>> # <<pc[p], call[p], result[p]>>

\* C21: pull_tasks with use_cache=True for a date whose local snapshot loads
\* returns that snapshot with success=True, issues no remote call, and
\* changes neither the remote record nor the snapshot.
C21_CacheFirstPullTouchesNothing ==
    [][\A p \in Procs :
          LET d == call'[p].date
          IN  (/\ Starts(p)
               /\ call'[p].op = "pull"
               /\ call'[p].use_cache
               /\ LoadLocal(local, d, now) # <<>>)
              => /\ pc'[p] = "done"
                 /\ result'[p].success
                 /\ result'[p].data = LoadLocal(local, d, now)
                 /\ call'[p].trace = <<>>
                 /\ remote' = remote
                 /\ local' = local]_vars

\* a cache-first pull served the snapshot of a push the remote never stored
C21_Witness ==
    \E p \in Procs :
        /\ Finished(p)
        /\ IsPull(p)
        /\ call[p].use_cache
        /\ call[p].trace = <<>>
        /\ result[p].success
        /\ result[p].data = LoadLocal(local, call[p].date, now)
        /\ remote[call[p].date] = <<>>

\* a step in which client p's pull gets a row from the remote store
PullGetsRow(p) ==
    /\ pc[p] = "query"
    /\ pc'[p] = "done"
    /\ LastIssued(p)' = Issued("select", "row")

\* C22: when pull_tasks queries the remote store and the store returns a
\* record for the date, pull_tasks returns that record's data and overwrites
\* the local snapshot with it: directly afterwards the snapshot equals the
\* remote record, whatever it held before.
C22_PullOverwritesSnapshotWithRecord ==
    [][\A p \in Procs :
          LET d == call[p].date
          IN  PullGetsRow(p)
              => /\ result'[p].success
                 /\ result'[p].data = remote[d]
                 /\ local'[d] = remote[d]]_vars

----------------------------------------------------------------------------
(* Properties of the local cache (SpecFaults) *)

\* a step in which client p's push_tasks_smart runs _save_local_copy
SavesSnapshot(p) ==
    /\ pc[p] \in {"idle", "done"}
    /\ pc'[p] = "exists"
    /\ call'[p].op = "push"

\* C23: saving a daily task set and then loading the same date returns a set
\* equal to the saved one (date, tasks in order with the same field values,
\* summary), and the save replaces whatever snapshot the date had.
C23_SaveThenLoadReturnsSavedSet ==
    [][\A p \in Client :
          LET d == call'[p].date
              saved == DailyTasksOf(d, call'[p].tasks)
          IN  (/\ SavesSnapshot(p)
               /\ call'[p].io = "ok"
               /\ call'[p].tasks \in PushLists)
              => /\ local'[d] = <<saved>>
                 /\ LoadLocal(local', d, now) = <<saved>>]_vars

\* C24: a local save is all-or-nothing: after a save, interrupted or not, the
\* date's snapshot is the complete previous one or the complete new one, and
\* a load never returns a partial snapshot as valid.
C24_LocalSaveAllOrNothing ==
    [][\A p \in Client :
          LET d == call'[p].date
          IN  SavesSnapshot(p)
              => /\ \/ local'[d] = local[d]
                    \/ local'[d] = <<DailyTasksOf(d, call'[p].tasks)>>
                 /\ LoadLocal(local', d, now) # <<>> => ~IsTorn(local'[d][1])]_vars

\* a file _load_local_copy cannot turn into a DailyTasks
Unloadable(file) ==
    \/ file = <<>>
    \/ IsTorn(file[1])
    \/ ~TasksOk(file[1].tasks)

\* C25: a failure of local cache I/O never fails an operation: a push whose
\* local save failed still issues the existence query and the write and
\* returns the write's outcome; a pull over a missing, unreadable or invalid
\* file goes on to the remote store and returns its record (one that
\* validates) or the empty set.
C25_CacheFailureNeverFailsOperation ==
    /\ [](\A p \in Client :
            (/\ Finished(p)
             /\ IsPush(p, "ImprovedTaskSync")
             /\ call[p].date \in Dates
             /\ call[p].io # "ok")
            => /\ Len(call[p].trace) = 2
               /\ call[p].trace[1].op = "select"
               /\ call[p].trace[2].op \in {"insert", "update"}
               /\ result[p].success <=> call[p].trace[2].rsp = "row")
    /\ [][\A p \in Client :
            (/\ Starts(p)
             /\ call'[p].op = "pull"
             /\ Unloadable(local[call'[p].date]))
            => pc'[p] = "query"]_vars
    /\ [][\A p \in Client :
            (/\ pc[p] = "query"
             /\ pc'[p] = "done"
             /\ call[p].impl = "ImprovedTaskSync"
             /\ Unloadable(local[call[p].date])
             /\ \/ LastIssued(p)'.rsp = "norow"
                \/ /\ LastIssued(p)'.rsp = "row"
                   /\ TasksOk(remote[call[p].date][1].tasks))
            => /\ result'[p].success
               /\ LastIssued(p)'.rsp = "row" => result'[p].data # <<>>
               /\ LastIssued(p)'.rsp = "norow"
                    => result'[p].data = <<EmptyDailyTasks(call[p].date)>>]_vars

\* a push succeeded although its local save left a torn file behind
C25_Witness ==
    \E p \in Client :
        /\ Finished(p)
        /\ IsPush(p, "ImprovedTaskSync")
        /\ call[p].io = "write_failed"
        /\ result[p].success
        /\ local[call[p].date] # <<>>
        /\ IsTorn(local[call[p].date][1])

----------------------------------------------------------------------------
(* Properties of Task operations (SpecTask) *)

\* C26: complete_subtask with an id no subtask of the task has (any id when
\* the task has no subtasks) returns False and leaves the task unchanged; it
\* returns True only when a subtask has the id, and that subtask is then
\* completed.
C26_UnknownSubtaskIdChangesNothing ==
    /\ [][(ret' = "False" /\ now' = now) => task' = task]_vars
    /\ [][(ret' = "True" /\ now' = now)
            => \E i \in 1..Len(task.subtasks) :
                  /\ task'.subtasks[i].completed
                  /\ task'.subtasks[i].id = task.subtasks[i].id]_vars
    /\ [](ret = "True" => task.subtasks # <<>>)

\* complete_subtask returned False on a task without subtasks, some time
\* after the task was last touched
C26_Witness ==
    /\ ret = "False"
    /\ task.subtasks = <<>>
    /\ task.updated_at < now

\* C27: every operation that changes a Task (add_note, add_subtask,
\* mark_completed, complete_subtask with a known id, update_task's field
\* changes) sets updated_at to the time of the operation, so that updated_at
\* is never older than the latest change and never ahead of the clock.
C27_MutationsRefreshUpdatedAt ==
    /\ [][task' # task => (now' = now /\ task'.updated_at = now)]_vars
    /\ [](task.updated_at <= now)

\* a note was added after the clock moved, and updated_at shows that time
C27_Witness ==
    /\ now > 0
    /\ task.notes > 0
    /\ task.updated_at = now

----------------------------------------------------------------------------
(* Properties of push_tasks_smart's failures (SpecFaults) *)

ErrorTypes ==
    {"constraint_violation", "permission_error", "network_error",
     "database_error", "unknown_error"}

\* the error type the classification order gives a finished, failed push
ExpectedErrorType(p) ==
    LET e == result[p].error
    IN  IF call[p].date \notin Dates THEN "unknown_error"
        ELSE IF LastIssued(p).rsp = "norow" THEN "database_error"
        ELSE IF LastIssued(p).rsp = "conflict" THEN "constraint_violation"
        ELSE IF e \in {"permission denied for table daily_tasks",
                       "Network connection lost: permission denied"}
        THEN "permission_error"
        ELSE IF e \in {"network is unreachable", "connection refused"}
        THEN "network_error"
        ELSE "unknown_error"

\* C28: push_tasks_smart never raises: every call ends with a result, and
\* every failure (invalid date, exception from the remote store, response
\* without data) has success=False, an error_type among the five classes and
\* a non-empty suggested_fix; the class is database_error for a response
\* without data and otherwise follows the order duplicate key, permission,
\* network or connection, unknown.
C28_PushFailuresAreClassified ==
    \A p \in Client :
        (Finished(p) /\ IsPush(p, "ImprovedTaskSync"))
        => /\ result[p].message # "none"
           /\ call[p].date \notin Dates => ~result[p].success
           /\ LastIssued(p).rsp \in {"fault", "conflict", "norow"}
                => ~result[p].success
           /\ ~result[p].success
                => /\ result[p].error_type \in ErrorTypes
                   /\ result[p].suggested_fix # ""
                   /\ result[p].error_type = ExpectedErrorType(p)

\* an error naming both a lost connection and a denied permission came back
\* as a permission error
C28_Witness ==
    \E p \in Client :
        /\ Finished(p)
        /\ IsPush(p, "ImprovedTaskSync")
        /\ result[p].error = "Network connection lost: permission denied"
        /\ result[p].error_type = "permission_error"

----------------------------------------------------------------------------
(* Properties of realtime subscriptions (SpecSubs) *)

\* C29: after any sequence of subscribe_to_changes and unsubscribe calls on
\* one TaskSync object the ids of the active subscriptions are pairwise
\* distinct.
C29_SubscriptionIdsDistinct ==
    \A i, j \in 1..Len(active_subscriptions) :
        i # j => active_subscriptions[i].id # active_subscriptions[j].id

----------------------------------------------------------------------------
(* Properties of a failed existence query (Spec) *)

\* a step in which client p's push_tasks_smart, whose existence query
\* failed, gets the answer to its write
WritesAfterFailedQuery(p) ==
    /\ pc[p] = "write"
    /\ pc'[p] = "done"
    /\ call[p].trace = <<Issued("select", "fault")>>

\* C30: when the existence query of push_tasks_smart fails, the record is
\* taken as absent and an insert is attempted; when the date has a record
\* and the insert reaches the store, the push returns a failure of type
\* constraint_violation, the remote record keeps its tasks and summary, and
\* the local snapshot, saved by this push and by nobody since, holds the
\* pushed ones.
C30_FailedExistenceQueryInserts ==
    [][\A p \in Procs :
          LET d == call[p].date
          IN  WritesAfterFailedQuery(p)
              => /\ ~call[p].exists
                 /\ LastIssued(p)'.op = "insert"
                 /\ (remote[d] # <<>> /\ LastIssued(p)'.rsp # "fault")
                      => /\ LastIssued(p)'.rsp = "conflict"
                         /\ ~result'[p].success
                         /\ result'[p].error_type = "constraint_violation"
                         /\ remote' = remote
                         /\ lastSaved[d] = <<call[p].tasks>>
                              => local'[d] = <<DailyTasksOf(d, call[p].tasks)>>]_vars

\* a push whose existence query failed was refused as a duplicate: the remote
\* record holds another task list than the snapshot the push saved
C30_Witness ==
    \E p \in Procs :
        LET d == call[p].date
        IN  /\ Finished(p)
            /\ IsPush(p, "ImprovedTaskSync")
            /\ call[p].trace = <<Issued("select", "fault"), Issued("insert", "conflict")>>
            /\ result[p].error_type = "constraint_violation"
            /\ local[d] = <<DailyTasksOf(d, call[p].tasks)>>
            /\ remote[d] # <<>>
            /\ remote[d][1].tasks # call[p].tasks

====
